---- MODULE Spec2Model ----
(***************************************************************************)
(* Device pairing state machine of scripts/mock-sysaibox/server.py.       *)
(*                                                                         *)
(* device_codes is a Python dict: an insertion-ordered map from           *)
(* device_code to a record.  It is modelled as a sequence of entries, in  *)
(* insertion order, each carrying its key.  Strings that the code         *)
(* transforms (the hex of a uuid, the code typed in the console) are      *)
(* sequences of one-character strings.                                    *)
(*                                                                         *)
(* Spec     : every request handler runs to completion (one action each). *)
(* SpecConc : one request per thread; the handlers interleave at each     *)
(*            access of device_codes; the code takes no lock.             *)
(***************************************************************************)
EXTENDS Integers, Sequences, FiniteSets, TLC

\* ---- bounds of the model ------------------------------------------------
MaxRecords == 2
MaxTime == 1000
TickStep == 200

\* ---- program constants --------------------------------------------------
ExpiresIn == 600

Threads == {"t1", "t2"}

\* str(uuid.uuid4()) values; one more than the records that fit, so that a
\* device code that is not in the store always exists.
Uuids == 1..(MaxRecords + 1)

\* uuid.uuid4().hex values (leading characters); the first two differ only
\* after the fourth character.
HexSamples ==
  { <<"a", "1", "b", "2", "c", "3">>,
    <<"a", "1", "b", "2", "0", "0">>,
    <<"0", "f", "9", "e", "7", "7">> }

\* values of the console's ?code= parameter
ApproveCodes ==
  { << >>,
    <<"S", "W", "I", "F", "T", "-", "A", "1", "B", "2">>,
    <<"s", "w", "i", "f", "t", "-", "a", "1", "b", "2">>,
    <<"S", "W", "I", "F", "T", "-", "0", "F", "9", "E">>,
    <<"U", "N", "K", "N", "O", "W", "N", "-", "C", "O", "D", "E">> }

VARIABLES
  device_codes,   \* the dict, as a sequence of entries in insertion order
  now,            \* time.time()
  last,           \* Spec: the request handled last and its response
  approvedCodes,  \* history: device codes whose user_code an Approve has named
  started,        \* history: number of completed device_start calls
  pc,             \* SpecConc: position of each thread in its handler
  loc,            \* SpecConc: locals of each thread's handler
  result          \* SpecConc: response of each thread's request

vars == <<device_codes, now, last, approvedCodes, started, pc, loc, result>>

\* ---- str.upper() --------------------------------------------------------
LowerChars ==
  <<"a", "b", "c", "d", "e", "f", "g", "h", "i", "j", "k", "l", "m",
    "n", "o", "p", "q", "r", "s", "t", "u", "v", "w", "x", "y", "z">>

UpperChars ==
  <<"A", "B", "C", "D", "E", "F", "G", "H", "I", "J", "K", "L", "M",
    "N", "O", "P", "Q", "R", "S", "T", "U", "V", "W", "X", "Y", "Z">>

UpperChar(c) ==
  IF \E i \in 1..Len(LowerChars) : LowerChars[i] = c
  THEN UpperChars[CHOOSE i \in 1..Len(LowerChars) : LowerChars[i] = c]
  ELSE c

StrUpper(s) == [i \in 1..Len(s) |-> UpperChar(s[i])]

\* f"SWIFT-{uuid.uuid4().hex[:4].upper()}"
UserCodePrefix == <<"S", "W", "I", "F", "T", "-">>

MakeUserCode(hex) == UserCodePrefix \o StrUpper(SubSeq(hex, 1, 4))

\* ---- the dict -----------------------------------------------------------
Keys(store) == { store[i].device_code : i \in 1..Len(store) }

\* device_code in device_codes
HasKey(store, dc) == dc \in Keys(store)

IndexOf(store, dc) == CHOOSE i \in 1..Len(store) : store[i].device_code = dc

\* device_codes[device_code]
Lookup(store, dc) == store[IndexOf(store, dc)]

\* variant: the initial status spelled with a capital
NewRecord_Capitalised(dc, uc, t) ==
  [ device_code |-> dc, user_code |-> uc, status |-> "Pending",
    created |-> t, expires_in |-> ExpiresIn ]

NewRecord(dc, uc, t) ==
  [ device_code |-> dc, user_code |-> uc, status |-> "pending",
    created |-> t, expires_in |-> ExpiresIn ]

\* variant: the dict keyed by user_code, so that a record replaces the one
\* carrying the same user code
StoreRecord_KeyedByUserCode(store, dc, uc, t) ==
  IF \E i \in 1..Len(store) : store[i].user_code = uc
  THEN [store EXCEPT
          ![CHOOSE i \in 1..Len(store) : store[i].user_code = uc] =
             NewRecord(dc, uc, t)]
  ELSE Append(store, NewRecord(dc, uc, t))

\* device_codes[device_code] = {...}: a new key is appended, an existing
\* key keeps its position and gets the new value.
StoreRecord(store, dc, uc, t) ==
  IF HasKey(store, dc)
  THEN [store EXCEPT ![IndexOf(store, dc)] = NewRecord(dc, uc, t)]
  ELSE Append(store, NewRecord(dc, uc, t))

\* variant: the entry replaced by a new dict that drops the other fields
SetAuthorized_Replace(store, i) ==
  [store EXCEPT ![i] = [ device_code |-> store[i].device_code,
                         user_code |-> << >>, status |-> "authorized",
                         created |-> 0, expires_in |-> 0 ]]

\* device_codes[device_code]['status'] = 'authorized'
SetAuthorized(store, i) == [store EXCEPT ![i].status = "authorized"]

\* uuid4 values already handed out, stored or held by a running device_start
UsedUuids ==
  Keys(device_codes) \cup
  { loc[t].device_code : t \in { u \in Threads : pc[u] = "start_insert" } }

\* str(uuid.uuid4()): a version-4 UUID is an opaque identifier that was never
\* handed out before; the model names the values by their order of issue.
Uuid4(used) ==
  { u \in Uuids \ used : \A v \in Uuids \ used : u <= v }

\* ---- pure parts of the handlers -----------------------------------------
\* variant: expiry at the TTL itself (>= for >)
IsExpired_Inclusive(data, t) == t - data.created >= data.expires_in

\* time.time() - data['created'] > data['expires_in']
IsExpired(data, t) == t - data.created > data.expires_in

\* variant: an unknown device code reported expired
StatusOf_UnknownExpired(store, t, dc) ==
  IF HasKey(store, dc)
  THEN IF IsExpired(Lookup(store, dc), t)
       THEN "expired"
       ELSE Lookup(store, dc).status
  ELSE "expired"

\* variant: the stored status is consulted before the age
StatusOf_StoredFirst(store, t, dc) ==
  IF HasKey(store, dc)
  THEN IF Lookup(store, dc).status = "authorized"
       THEN "authorized"
       ELSE IF IsExpired(Lookup(store, dc), t)
            THEN "expired"
            ELSE Lookup(store, dc).status
  ELSE "pending"

\* device_status
StatusOf(store, t, dc) ==
  IF HasKey(store, dc)
  THEN IF IsExpired(Lookup(store, dc), t)
       THEN "expired"
       ELSE Lookup(store, dc).status
  ELSE "pending"

\* variant: the status test of line 140 left out
TokenOf_AnyRecord(store, dc) ==
  IF HasKey(store, dc) THEN "tokens" ELSE "not_authorized"

\* device_token
TokenOf(store, dc) ==
  IF HasKey(store, dc) /\ Lookup(store, dc).status = "authorized"
  THEN "tokens"
  ELSE "not_authorized"

\* variant: the comparison of line 63 left out
Matches_AnyRecord(store, code) == 1..Len(store)

\* the for loop of approve: indices of the entries whose user_code matches
Matches(store, code) ==
  { i \in 1..Len(store) : store[i].user_code = code }

\* variant: the loop keeps going and the last match is written
FirstMatch_Last(store, code) ==
  CHOOSE i \in Matches(store, code) : \A j \in Matches(store, code) : i >= j

FirstMatch(store, code) ==
  CHOOSE i \in Matches(store, code) : \A j \in Matches(store, code) : i <= j

\* variant: every record is authorized once some record matches
ApproveStore_All(store, code) ==
  IF Matches(store, code) = {}
  THEN store
  ELSE [i \in 1..Len(store) |-> [store[i] EXCEPT !.status = "authorized"]]

ApproveStore(store, code) ==
  IF Matches(store, code) = {}
  THEN store
  ELSE SetAuthorized(store, FirstMatch(store, code))

ApproveResponse(store, code) ==
  IF Matches(store, code) = {} THEN "not_found" ELSE "approved"

\* history: the device codes whose record carries the approved user code
Named(store, code) ==
  { store[i].device_code : i \in Matches(store, code) }

\* ---- initial state ------------------------------------------------------
NoLocals == [ device_code |-> 0, user_code |-> << >>, code |-> << >>,
              it_used |-> 0, it_pos |-> 0, index |-> 0 ]

Init ==
  /\ device_codes = << >>
  /\ now = 0
  /\ last = [ op |-> "none", result |-> "none" ]
  /\ approvedCodes = {}
  /\ started = 0
  /\ pc = [ t \in Threads |-> "idle" ]
  /\ loc = [ t \in Threads |-> NoLocals ]
  /\ result = [ t \in Threads |-> "none" ]

ThreadVars == <<pc, loc, result>>

\* ---- Spec: one action per request ---------------------------------------
Tick ==
  /\ now + TickStep <= MaxTime
  /\ now' = now + TickStep
  /\ UNCHANGED <<device_codes, last, approvedCodes, started, ThreadVars>>

DeviceStart ==
  /\ Len(device_codes) < MaxRecords
  /\ \E dc \in Uuid4(UsedUuids), hex \in HexSamples :
       /\ device_codes' = StoreRecord(device_codes, dc, MakeUserCode(hex), now)
       /\ last' = [ op |-> "start", device_code |-> dc,
                    user_code |-> MakeUserCode(hex), result |-> "started" ]
  /\ started' = started + 1
  /\ UNCHANGED <<now, approvedCodes, ThreadVars>>

DeviceStatus ==
  /\ \E dc \in Uuids :
       last' = [ op |-> "status", device_code |-> dc,
                 result |-> StatusOf(device_codes, now, dc) ]
  /\ UNCHANGED <<device_codes, now, approvedCodes, started, ThreadVars>>

Approve ==
  /\ \E arg \in ApproveCodes :
       /\ device_codes' = ApproveStore(device_codes, StrUpper(arg))
       /\ last' = [ op |-> "approve", code |-> arg,
                    result |-> ApproveResponse(device_codes, StrUpper(arg)) ]
       /\ approvedCodes' =
            approvedCodes \cup Named(device_codes, StrUpper(arg))
  /\ UNCHANGED <<now, started, ThreadVars>>

\* variant: a successful redemption marks the record consumed
DeviceToken_Consuming ==
  /\ \E dc \in Uuids :
       /\ last' = [ op |-> "token", device_code |-> dc,
                    result |-> TokenOf(device_codes, dc) ]
       /\ device_codes' =
            IF TokenOf(device_codes, dc) = "tokens"
            THEN [device_codes EXCEPT
                    ![IndexOf(device_codes, dc)].status = "consumed"]
            ELSE device_codes
  /\ UNCHANGED <<now, approvedCodes, started, ThreadVars>>

DeviceToken ==
  /\ \E dc \in Uuids :
       last' = [ op |-> "token", device_code |-> dc,
                 result |-> TokenOf(device_codes, dc) ]
  /\ UNCHANGED <<device_codes, now, approvedCodes, started, ThreadVars>>

Refresh ==
  /\ last' = [ op |-> "refresh", result |-> "tokens" ]
  /\ UNCHANGED <<device_codes, now, approvedCodes, started, ThreadVars>>

Revoke ==
  /\ last' = [ op |-> "revoke", result |-> "success" ]
  /\ UNCHANGED <<device_codes, now, approvedCodes, started, ThreadVars>>

Next ==
  \/ Tick
  \/ DeviceStart
  \/ DeviceStatus
  \/ Approve
  \/ DeviceToken
  \/ Refresh
  \/ Revoke

Spec == Init /\ [][Next]_vars

\* ---- SpecConc: handlers interleave at each access of device_codes -------
Finish(t, r) ==
  /\ pc' = [pc EXCEPT ![t] = "done"]
  /\ loc' = [loc EXCEPT ![t] = NoLocals]
  /\ result' = [result EXCEPT ![t] = r]

Goto(t, label, locals) ==
  /\ pc' = [pc EXCEPT ![t] = label]
  /\ loc' = [loc EXCEPT ![t] = locals]
  /\ UNCHANGED result

InFlightStarts == Cardinality({ t \in Threads : pc[t] = "start_insert" })

\* device_start, lines 102-103: the two codes are drawn
StartBegin(t) ==
  /\ pc[t] = "idle"
  /\ Len(device_codes) + InFlightStarts < MaxRecords
  /\ \E dc \in Uuid4(UsedUuids), hex \in HexSamples :
       Goto(t, "start_insert",
            [NoLocals EXCEPT !.device_code = dc,
                             !.user_code = MakeUserCode(hex)])
  /\ UNCHANGED <<device_codes, now, last, approvedCodes, started>>

\* device_start, lines 105-110: the record is stored
StartInsert(t) ==
  /\ pc[t] = "start_insert"
  /\ device_codes' =
       StoreRecord(device_codes, loc[t].device_code, loc[t].user_code, now)
  /\ started' = started + 1
  /\ Finish(t, "started")
  /\ UNCHANGED <<now, last, approvedCodes>>

\* approve, lines 61-62: the code is upper-cased and the iterator over
\* device_codes.items() is created; it remembers the size of the dict
ApproveBegin(t) ==
  /\ pc[t] = "idle"
  /\ \E arg \in ApproveCodes :
       Goto(t, "approve_next",
            [NoLocals EXCEPT !.code = StrUpper(arg),
                             !.it_used = Len(device_codes)])
  /\ UNCHANGED <<device_codes, now, last, approvedCodes, started>>

\* next() on the iterator after the dict has grown: RuntimeError
\* "dictionary changed size during iteration", an unhandled exception
ApproveRaise(t) ==
  /\ pc[t] = "approve_next"
  /\ Len(device_codes) # loc[t].it_used
  /\ Finish(t, "RuntimeError")
  /\ UNCHANGED <<device_codes, now, last, approvedCodes, started>>

\* next() on the exhausted iterator: the loop ends, line 74
ApproveExhausted(t) ==
  /\ pc[t] = "approve_next"
  /\ Len(device_codes) = loc[t].it_used
  /\ loc[t].it_pos >= Len(device_codes)
  /\ Finish(t, "not_found")
  /\ UNCHANGED <<device_codes, now, last, approvedCodes, started>>

\* next() yields an entry whose user_code differs, line 63
ApproveSkip(t) ==
  /\ pc[t] = "approve_next"
  /\ Len(device_codes) = loc[t].it_used
  /\ loc[t].it_pos < Len(device_codes)
  /\ device_codes[loc[t].it_pos + 1].user_code # loc[t].code
  /\ Goto(t, "approve_next", [loc[t] EXCEPT !.it_pos = @ + 1])
  /\ UNCHANGED <<device_codes, now, last, approvedCodes, started>>

\* next() yields an entry whose user_code matches, line 63
ApproveMatch(t) ==
  /\ pc[t] = "approve_next"
  /\ Len(device_codes) = loc[t].it_used
  /\ loc[t].it_pos < Len(device_codes)
  /\ device_codes[loc[t].it_pos + 1].user_code = loc[t].code
  /\ Goto(t, "approve_write",
          [loc[t] EXCEPT !.device_code =
                           device_codes[loc[t].it_pos + 1].device_code])
  /\ UNCHANGED <<device_codes, now, last, approvedCodes, started>>

\* approve, line 64
ApproveWrite(t) ==
  /\ pc[t] = "approve_write"
  /\ device_codes' =
       SetAuthorized(device_codes, IndexOf(device_codes, loc[t].device_code))
  /\ Finish(t, "approved")
  /\ UNCHANGED <<now, last, approvedCodes, started>>

\* device_status, line 126 fails: line 133
StatusUnknown(t) ==
  /\ pc[t] = "idle"
  /\ \E dc \in Uuids : ~HasKey(device_codes, dc)
  /\ Finish(t, "pending")
  /\ UNCHANGED <<device_codes, now, last, approvedCodes, started>>

\* device_status, lines 126-130: the record is fetched and its age tested
StatusLookup(t) ==
  /\ pc[t] = "idle"
  /\ \E dc \in Keys(device_codes) :
       IF IsExpired(Lookup(device_codes, dc), now)
       THEN Finish(t, "expired")
       ELSE Goto(t, "status_read", [NoLocals EXCEPT !.device_code = dc])
  /\ UNCHANGED <<device_codes, now, last, approvedCodes, started>>

\* device_status, line 131: data['status'] is read
StatusRead(t) ==
  /\ pc[t] = "status_read"
  /\ Finish(t, Lookup(device_codes, loc[t].device_code).status)
  /\ UNCHANGED <<device_codes, now, last, approvedCodes, started>>

\* device_token, line 140, left operand of "and"
TokenBegin(t) ==
  /\ pc[t] = "idle"
  /\ \E dc \in Uuids :
       IF HasKey(device_codes, dc)
       THEN Goto(t, "token_read", [NoLocals EXCEPT !.device_code = dc])
       ELSE Finish(t, "not_authorized")
  /\ UNCHANGED <<device_codes, now, last, approvedCodes, started>>

\* device_token, line 140, right operand of "and"
TokenRead(t) ==
  /\ pc[t] = "token_read"
  /\ Finish(t, TokenOf(device_codes, loc[t].device_code))
  /\ UNCHANGED <<device_codes, now, last, approvedCodes, started>>

NextConc ==
  \/ Tick
  \/ \E t \in Threads : StartBegin(t)
  \/ \E t \in Threads : StartInsert(t)
  \/ \E t \in Threads : ApproveBegin(t)
  \/ \E t \in Threads : ApproveRaise(t)
  \/ \E t \in Threads : ApproveExhausted(t)
  \/ \E t \in Threads : ApproveSkip(t)
  \/ \E t \in Threads : ApproveMatch(t)
  \/ \E t \in Threads : ApproveWrite(t)
  \/ \E t \in Threads : StatusUnknown(t)
  \/ \E t \in Threads : StatusLookup(t)
  \/ \E t \in Threads : StatusRead(t)
  \/ \E t \in Threads : TokenBegin(t)
  \/ \E t \in Threads : TokenRead(t)

\* The threads start on a store left by earlier requests: up to MaxRecords
\* records in order of issue, each pending or authorized.
StoresOfLen(n) ==
  { st \in [ 1..n -> [ device_code : 1..n,
                       user_code : { MakeUserCode(h) : h \in HexSamples },
                       status : {"pending", "authorized"},
                       created : {0},
                       expires_in : {ExpiresIn} ] ] :
      \A i \in 1..n : st[i].device_code = i }

InitConc ==
  /\ \E n \in 0..MaxRecords : device_codes \in StoresOfLen(n)
  /\ now = 0
  /\ last = [ op |-> "none", result |-> "none" ]
  /\ approvedCodes = {}
  /\ started = Len(device_codes)
  /\ pc = [ t \in Threads |-> "idle" ]
  /\ loc = [ t \in Threads |-> NoLocals ]
  /\ result = [ t \in Threads |-> "none" ]

SpecConc == InitConc /\ [][NextConc]_vars

\* ========================================================================
\* Properties
\* ========================================================================
Records == { device_codes[i] : i \in 1..Len(device_codes) }

Age(r) == now - r.created

CodeUnknown == <<"U", "N", "K", "N", "O", "W", "N", "-", "C", "O", "D", "E">>
CodeLower == <<"s", "w", "i", "f", "t", "-", "a", "1", "b", "2">>
CodeUpper == <<"S", "W", "I", "F", "T", "-", "A", "1", "B", "2">>

\* C1: for every record, RedeemToken fails with NotAuthorized as long as no
\* Approve has named the record's user code, and succeeds in every state
\* after such an Approve.
C1_RedeemFollowsApprove ==
  \A r \in Records :
    /\ r.device_code \notin approvedCodes
         => TokenOf(device_codes, r.device_code) = "not_authorized"
    /\ r.device_code \in approvedCodes
         => TokenOf(device_codes, r.device_code) = "tokens"

\* C2: for every record, after an Approve of its user code that reports
\* success, GetStatus of its device code returns authorized.
C2_AuthorizedAfterApprove ==
  \A r \in Records :
    r.device_code \in approvedCodes
      => StatusOf(device_codes, now, r.device_code) = "authorized"

\* C3 (as stated): RedeemToken fails with NotAuthorized whenever the device
\* code is absent, the stored status is pending, or GetStatus reports the
\* record expired.
C3_NoTokensWhenExpired ==
  \A dc \in Uuids :
    ( \/ ~HasKey(device_codes, dc)
      \/ Lookup(device_codes, dc).status = "pending"
      \/ StatusOf(device_codes, now, dc) = "expired" )
    => TokenOf(device_codes, dc) = "not_authorized"

\* C3 (amended): a RedeemToken request is answered with tokens exactly when
\* the record exists and its stored status is authorized, which requires an
\* earlier Approve of its user code; an absent or pending record gets
\* NotAuthorized; the record's age is not consulted.
C3_TokensIffStoredAuthorized ==
  last.op = "token" =>
    /\ last.result \in {"tokens", "not_authorized"}
    /\ last.result = "tokens" <=>
         \E r \in Records : /\ r.device_code = last.device_code
                            /\ r.status = "authorized"
    /\ last.result = "tokens" => last.device_code \in approvedCodes

\* an approved record past its TTL has just been redeemed
C3_Witness ==
  /\ last.op = "token"
  /\ last.result = "tokens"
  /\ StatusOf(device_codes, now, last.device_code) = "expired"

\* C4: GetStatus returns expired whenever the record's age is strictly
\* greater than 600 s, approved or not; a never-approved record whose age is
\* at most 600 s is not reported expired.
C4_ExpiredWhenAged ==
  \A r \in Records :
    /\ Age(r) > 600
         => StatusOf(device_codes, now, r.device_code) = "expired"
    /\ (r.device_code \notin approvedCodes /\ Age(r) <= 600)
         => StatusOf(device_codes, now, r.device_code) # "expired"

\* GetStatus has just reported expired for a record that was never approved
C4_Witness ==
  /\ last.op = "status"
  /\ last.result = "expired"
  /\ \E r \in Records : /\ r.device_code = last.device_code
                        /\ r.device_code \notin approvedCodes
                        /\ r.status = "pending"

\* C5: a record is stored pending, and GetStatus returns pending for it
\* until an Approve names its user code, while its age is at most 600 s,
\* whatever happens to other records.
C5_PendingUntilApproved ==
  /\ \A r \in Records :
       (r.device_code \notin approvedCodes /\ Age(r) <= ExpiresIn)
         => /\ r.status = "pending"
            /\ StatusOf(device_codes, now, r.device_code) = "pending"
  /\ last.op = "start" =>
       \E r \in Records : /\ r.device_code = last.device_code
                          /\ r.user_code = last.user_code
                          /\ r.status = "pending"

\* another record has just been approved while this one is still pending
C5_Witness ==
  /\ last.op = "approve"
  /\ last.result = "approved"
  /\ \E r, q \in Records :
       /\ r.device_code \notin approvedCodes
       /\ StatusOf(device_codes, now, r.device_code) = "pending"
       /\ q.status = "authorized"

C7_UniqueLiveUserCodes ==
  \A i, j \in 1..Len(device_codes) :
    ( /\ i # j
      /\ ~IsExpired(device_codes[i], now)
      /\ ~IsExpired(device_codes[j], now) )
    => device_codes[i].user_code # device_codes[j].user_code

C9_Serialized ==
  \A t \in Threads :
    pc[t] = "done" =>
      result[t] \in { "started", "approved", "not_found", "pending",
                      "authorized", "expired", "tokens", "not_authorized" }

Target(code) ==
  { i \in 1..Len(device_codes) :
      /\ device_codes[i].user_code = code
      /\ \A j \in 1..(i - 1) : device_codes[j].user_code # code }

\* C11: an Approve that applies to a record that is not pending (already
\* authorized, or expired by its age) reports success and leaves the store
\* unchanged, so that GetStatus and RedeemToken answer for that record
\* as before.
C11_ApproveNonPendingNoOp ==
  [][ ( /\ last'.op = "approve"
        /\ now' = now
        /\ \E i \in Target(StrUpper(last'.code)) :
             StatusOf(device_codes, now, device_codes[i].device_code)
               # "pending" )
      => /\ last'.result = "approved"
         /\ device_codes' = device_codes
         /\ \A dc \in Keys(device_codes) :
              /\ StatusOf(device_codes', now', dc)
                   = StatusOf(device_codes, now, dc)
              /\ TokenOf(device_codes', dc) = TokenOf(device_codes, dc) ]_vars

\* C12: GetStatus, RedeemToken, Refresh and Revoke leave the record
\* collection unchanged; after a successful RedeemToken the same device
\* code redeems again; Refresh and Revoke succeed unconditionally.
C12_ReadsLeaveStore ==
  [][ /\ last'.op \in {"status", "token", "refresh", "revoke"}
        => device_codes' = device_codes
      /\ (last'.op = "token" /\ last'.result = "tokens")
        => TokenOf(device_codes', last'.device_code) = "tokens"
      /\ last'.op = "refresh" => last'.result = "tokens"
      /\ last'.op = "revoke" => last'.result = "success" ]_vars

\* tokens have just been issued for a record, which is still authorized
C12_Witness ==
  /\ last.op = "token"
  /\ last.result = "tokens"
  /\ \E r \in Records : /\ r.device_code = last.device_code
                        /\ r.status = "authorized"

\* C13: GetStatus of a device code that is not in the store returns pending
\* and creates no record; for a device code that is in the store and not
\* expired it returns exactly the stored status.
C13_StatusOfUnknownAndLive ==
  /\ [] \A dc \in Uuids :
          /\ (\A r \in Records : r.device_code # dc)
               => StatusOf(device_codes, now, dc) = "pending"
          /\ \A r \in Records :
               (r.device_code = dc /\ Age(r) <= 600)
                 => StatusOf(device_codes, now, dc) = r.status
  /\ [][ (last'.op = "status" /\ last'.device_code \notin Keys(device_codes))
           => /\ last'.result = "pending"
              /\ device_codes' = device_codes ]_vars

\* GetStatus has just answered pending for a device code that is not among
\* the stored ones
C13_Witness ==
  /\ last.op = "status"
  /\ last.result = "pending"
  /\ last.device_code \notin Keys(device_codes)
  /\ Len(device_codes) > 0

\* C14: a device code that is in the store stays in the store, with its
\* user code, creation time and TTL (600) unchanged; only the status of a
\* record changes.
C14_RecordsKept ==
  [][ \A r \in Records :
        /\ r.expires_in = 600
        /\ \E i \in 1..Len(device_codes') :
             /\ device_codes'[i].device_code = r.device_code
             /\ device_codes'[i].user_code = r.user_code
             /\ device_codes'[i].created = r.created
             /\ device_codes'[i].expires_in = r.expires_in ]_vars

\* a record created after time 0 has been approved, and a second record
\* has been added after it
C14_Witness ==
  /\ Len(device_codes) = 2
  /\ device_codes[1].status = "authorized"
  /\ device_codes[1].created > 0
  /\ device_codes[2].created > device_codes[1].created

\* C16: GetStatus reports one of pending, authorized and expired, and a
\* stored status is one of pending and authorized; consumed is never stored
\* or reported.
C16_StatusValues ==
  /\ \A r \in Records : r.status \in {"pending", "authorized"}
  /\ \A dc \in Uuids :
       StatusOf(device_codes, now, dc) \in {"pending", "authorized", "expired"}
  /\ last.op = "status" => last.result \in {"pending", "authorized", "expired"}

\* GetStatus has just reported expired while the store holds a pending and
\* an authorized record
C16_Witness ==
  /\ last.op = "status"
  /\ last.result = "expired"
  /\ \E r, q \in Records : r.status = "pending" /\ q.status = "authorized"

\* C17: an Approve changes at most one record, the first in insertion order
\* whose user code equals the upper-cased code, and only its status; every
\* other record, later ones with the same user code included, is unchanged.
C17_ApproveChangesFirstMatch ==
  [][ (last'.op = "approve" /\ now' = now)
      => /\ Len(device_codes') = Len(device_codes)
         /\ \A i \in 1..Len(device_codes) :
              device_codes'[i] # device_codes[i]
                => /\ i \in Target(StrUpper(last'.code))
                   /\ device_codes'[i] =
                        [device_codes[i] EXCEPT !.status = "authorized"] ]_vars

\* an Approve has just authorized the first of two records that carry the
\* same user code; the second is still pending
C17_Witness ==
  /\ last.op = "approve"
  /\ last.result = "approved"
  /\ Len(device_codes) = 2
  /\ device_codes[1].user_code = device_codes[2].user_code
  /\ device_codes[1].status = "authorized"
  /\ device_codes[2].status = "pending"

\* the next step of thread t inside its handler
HandlerStep(t) ==
  \/ StartInsert(t)
  \/ ApproveRaise(t)
  \/ ApproveExhausted(t)
  \/ ApproveSkip(t)
  \/ ApproveMatch(t)
  \/ ApproveWrite(t)
  \/ StatusRead(t)
  \/ TokenRead(t)

\* C15: under every interleaving, a request that has started can always
\* take its next step (it never waits for another request), and a finished
\* request has ended in a normal outcome, never in an unhandled error.
C15_CompletesNormally ==
  \A t \in Threads :
    /\ pc[t] \notin {"idle", "done"} => ENABLED HandlerStep(t)
    /\ result[t] # "RuntimeError"

====
